---- MODULE Spec2Model ----
(***************************************************************************)
(* Framebuffer (Screen) and SSD1683 panel driver of the e-paper weather     *)
(* station: src/src/display/display.rs and src/src/display/ssd1683.rs.     *)
(***************************************************************************)
EXTENDS Integers, Sequences, FiniteSets, TLC

VARIABLES
    screen,      \* the Screen: width, height, black_bitmap, red_bitmap, border_color
    last,        \* the last canvas call: its name, arguments and result
    nops,        \* number of canvas calls made so far
    pc,          \* position of the running draw in its sequence of port operations; 0: no draw running
    log,         \* the port operations the current draw has issued, in order
    dc,          \* level of the data/command line (GPIO13)
    rst,         \* level of the reset line (GPIO14)
    busy,        \* level of the busy line (GPIO12), driven by the controller
    polls,       \* number of times the current draw found the busy line high (saturating)
    result,      \* what the last draw returned: "None" before the first return
    prevResult,  \* what the draw before the current one returned
    ndraws,      \* number of draws started
    app          \* the application: HttpServer's shared data, its handlers and the main loop

vars == <<screen, last, nops, pc, log, dc, rst, busy, polls, result, prevResult, ndraws, app>>

canvasVars == <<screen, last, nops>>
driverVars == <<pc, log, dc, rst, busy, polls, result, prevResult, ndraws, app>>

-----------------------------------------------------------------------------
(* Bounds of the model *)

MaxOps == 2      \* canvas calls in one behaviour
MaxDraws == 2    \* draws in one behaviour
MaxPolls == 2    \* the count of busy polls saturates here

-----------------------------------------------------------------------------
(* enum Color *)

White == "White"
Black == "Black"
Red == "Red"
InvBlack == "InvBlack"
InvRed == "InvRed"

Color == {White, Black, Red, InvBlack, InvRed}

Ok == "Ok"
InvalidArgument == "InvalidArgument"
HardwareIO == "HardwareIO"

\* an index past the end of a Vec or slice: the thread panics
Panic == "Panic"

-----------------------------------------------------------------------------
(* u8 arithmetic: the bit operations the code applies to plane bytes *)

\* b & (1u8 << k) != 0
TestBit(b, k) == (b \div (2 ^ k)) % 2 = 1

\* b |= 1u8 << k
OrBit(b, k) == IF TestBit(b, k) THEN b ELSE b + 2 ^ k

\* b &= !(1u8 << k)
AndNotBit(b, k) == IF TestBit(b, k) THEN b - 2 ^ k ELSE b

\* Vec indexing: v[i] with i counted from 0
At(v, i) == v[i + 1]

\* v[i] = b
Put(v, i, b) == [v EXCEPT ![i + 1] = b]

\* Vec::resize(n, 0) on an empty Vec followed, or not, by fill(b)
Filled(n, b) == [i \in 1..n |-> b]

\* Vec::fill(b)
Fill(v, b) == [i \in 1..Len(v) |-> b]

-----------------------------------------------------------------------------
(* struct Screen *)

\* new leaving both planes zero whatever the border colour
Screen_new_unfilled(width, height, border_color) ==
    [ width        |-> width,
      height       |-> height,
      black_bitmap |-> Filled((height * width) \div 8, 0),
      red_bitmap   |-> Filled((height * width) \div 8, 0),
      border_color |-> border_color ]

Screen_new(width, height, border_color) ==
    [ width        |-> width,
      height       |-> height,
      black_bitmap |-> Filled((height * width) \div 8, IF border_color = Black THEN 255 ELSE 0),
      red_bitmap   |-> Filled((height * width) \div 8, IF border_color = Red THEN 255 ELSE 0),
      border_color |-> border_color ]

get_width(s) == s.width

get_height(s) == s.height

get_border_color(s) == s.border_color

\* clear without the two fill(0) calls
clear_without_zeroing(s, color) ==
    [s EXCEPT !.black_bitmap = IF color = Black THEN Fill(s.black_bitmap, 255) ELSE s.black_bitmap,
              !.red_bitmap   = IF color = Red THEN Fill(s.red_bitmap, 255) ELSE s.red_bitmap]

clear(s, color) ==
    [s EXCEPT !.black_bitmap = Fill(s.black_bitmap, IF color = Black THEN 255 ELSE 0),
              !.red_bitmap   = Fill(s.red_bitmap, IF color = Red THEN 255 ELSE 0)]

\* set_pixel whose bounds test admits x = width
set_pixel_off_by_one(s, x, y, color) ==
    IF x > s.width \/ y >= s.height
    THEN [res |-> InvalidArgument, scr |-> s]
    ELSE LET pos == x + y * s.width
         IN  IF pos \div 8 >= Len(s.black_bitmap)
             THEN [res |-> Panic, scr |-> s]
             ELSE
             [res |-> Ok,
              scr |-> CASE color \in {Black, InvBlack} ->
                             [s EXCEPT !.black_bitmap =
                                 Put(s.black_bitmap, pos \div 8, OrBit(At(s.black_bitmap, pos \div 8), pos % 8))]
                        [] color \in {Red, InvRed} ->
                             [s EXCEPT !.red_bitmap =
                                 Put(s.red_bitmap, pos \div 8, OrBit(At(s.red_bitmap, pos \div 8), pos % 8))]
                        [] OTHER ->
                             [s EXCEPT !.black_bitmap =
                                 Put(s.black_bitmap, pos \div 8, AndNotBit(At(s.black_bitmap, pos \div 8), pos % 8)),
                                       !.red_bitmap =
                                 Put(s.red_bitmap, pos \div 8, AndNotBit(At(s.red_bitmap, pos \div 8), pos % 8))]]

set_pixel(s, x, y, color) ==
    IF x >= s.width \/ y >= s.height
    THEN [res |-> InvalidArgument, scr |-> s]
    ELSE LET pos == x + y * s.width
         IN  IF pos \div 8 >= Len(s.black_bitmap)
             THEN [res |-> Panic, scr |-> s]
             ELSE
             [res |-> Ok,
              scr |-> CASE color \in {Black, InvBlack} ->
                             [s EXCEPT !.black_bitmap =
                                 Put(s.black_bitmap, pos \div 8, OrBit(At(s.black_bitmap, pos \div 8), pos % 8))]
                        [] color \in {Red, InvRed} ->
                             [s EXCEPT !.red_bitmap =
                                 Put(s.red_bitmap, pos \div 8, OrBit(At(s.red_bitmap, pos \div 8), pos % 8))]
                        [] OTHER ->
                             [s EXCEPT !.black_bitmap =
                                 Put(s.black_bitmap, pos \div 8, AndNotBit(At(s.black_bitmap, pos \div 8), pos % 8)),
                                       !.red_bitmap =
                                 Put(s.red_bitmap, pos \div 8, AndNotBit(At(s.red_bitmap, pos \div 8), pos % 8))]]

get_pixel(s, x, y) ==
    IF x >= s.width \/ y >= s.height
    THEN [res |-> InvalidArgument, color |-> White]
    ELSE LET pos == x + y * s.width
         IN  IF pos \div 8 >= Len(s.black_bitmap)
             THEN [res |-> Panic, color |-> White]
             ELSE
             IF TestBit(At(s.black_bitmap, pos \div 8), pos % 8)
             THEN [res |-> Ok, color |-> Black]
             ELSE IF TestBit(At(s.red_bitmap, pos \div 8), pos % 8)
                  THEN [res |-> Ok, color |-> Red]
                  ELSE [res |-> Ok, color |-> White]

\* The inner loop of bitmap taking the source bits of a byte lowest bit first.
RECURSIVE bitmap_column_lsb(_, _, _, _, _, _, _, _, _)
bitmap_column_lsb(s, x, y, width, height, data, color, bmp_x, bmp_y) ==
    IF bmp_y >= height
    THEN [res |-> Ok, scr |-> s]
    ELSE LET pos       == bmp_x \div 8 + bmp_y * (width \div 8)
             condition == IF color = InvBlack \/ color = InvRed
                          THEN ~TestBit(At(data, pos), bmp_x % 8)
                          ELSE TestBit(At(data, pos), bmp_x % 8)
         IN  IF pos >= Len(data)
             THEN [res |-> Panic, scr |-> s]
             ELSE
             IF condition
             THEN LET r == set_pixel(s, x + bmp_x, y + bmp_y, color)
                  IN  IF r.res # Ok
                      THEN r
                      ELSE bitmap_column_lsb(r.scr, x, y, width, height, data, color, bmp_x, bmp_y + 1)
             ELSE bitmap_column_lsb(s, x, y, width, height, data, color, bmp_x, bmp_y + 1)

\* The inner loop of bitmap painting the other pixels of the column White.
RECURSIVE bitmap_column_opaque(_, _, _, _, _, _, _, _, _)
bitmap_column_opaque(s, x, y, width, height, data, color, bmp_x, bmp_y) ==
    IF bmp_y >= height
    THEN [res |-> Ok, scr |-> s]
    ELSE LET pos       == bmp_x \div 8 + bmp_y * (width \div 8)
             condition == IF color = InvBlack \/ color = InvRed
                          THEN ~TestBit(At(data, pos), 7 - (bmp_x % 8))
                          ELSE TestBit(At(data, pos), 7 - (bmp_x % 8))
         IN  IF pos >= Len(data)
             THEN [res |-> Panic, scr |-> s]
             ELSE
             LET r == set_pixel(s, x + bmp_x, y + bmp_y, IF condition THEN color ELSE White)
             IN  IF r.res # Ok
                 THEN r
                 ELSE bitmap_column_opaque(r.scr, x, y, width, height, data, color, bmp_x, bmp_y + 1)

\* The inner loop of bitmap: column bmp_x of the source, from row bmp_y down.
RECURSIVE bitmap_column(_, _, _, _, _, _, _, _, _)
bitmap_column(s, x, y, width, height, data, color, bmp_x, bmp_y) ==
    IF bmp_y >= height
    THEN [res |-> Ok, scr |-> s]
    ELSE LET pos       == bmp_x \div 8 + bmp_y * (width \div 8)
             condition == IF color = InvBlack \/ color = InvRed
                          THEN ~TestBit(At(data, pos), 7 - (bmp_x % 8))
                          ELSE TestBit(At(data, pos), 7 - (bmp_x % 8))
         IN  IF pos >= Len(data)
             THEN [res |-> Panic, scr |-> s]
             ELSE
             IF condition
             THEN LET r == set_pixel(s, x + bmp_x, y + bmp_y, color)
                  IN  IF r.res # Ok
                      THEN r
                      ELSE bitmap_column(r.scr, x, y, width, height, data, color, bmp_x, bmp_y + 1)
             ELSE bitmap_column(s, x, y, width, height, data, color, bmp_x, bmp_y + 1)

\* The outer loop of bitmap, from column bmp_x on.
RECURSIVE bitmap_loop(_, _, _, _, _, _, _, _)
bitmap_loop(s, x, y, width, height, data, color, bmp_x) ==
    IF bmp_x >= width
    THEN [res |-> Ok, scr |-> s]
    ELSE LET r == bitmap_column(s, x, y, width, height, data, color, bmp_x, 0)
         IN  IF r.res # Ok
             THEN r
             ELSE bitmap_loop(r.scr, x, y, width, height, data, color, bmp_x + 1)

\* bitmap without the test of y + height
bitmap_unchecked_height(s, x, y, width, height, data, color) ==
    IF (height * width) \div 8 # Len(data) \/ x + width > s.width
    THEN [res |-> InvalidArgument, scr |-> s]
    ELSE bitmap_loop(s, x, y, width, height, data, color, 0)

bitmap(s, x, y, width, height, data, color) ==
    IF (height * width) \div 8 # Len(data) \/ x + width > s.width \/ y + height > s.height
    THEN [res |-> InvalidArgument, scr |-> s]
    ELSE bitmap_loop(s, x, y, width, height, data, color, 0)

\* The loop body of rectangle for the k-th pair (bmp_x, bmp_y), bmp_x outermost.
RECURSIVE rectangle_loop(_, _, _, _, _, _, _)
rectangle_loop(s, x, y, width, height, color, k) ==
    IF k >= width * height
    THEN [res |-> Ok, scr |-> s]
    ELSE LET r == set_pixel(s, x + (k \div height), y + (k % height), color)
         IN  IF r.res # Ok
             THEN r
             ELSE rectangle_loop(r.scr, x, y, width, height, color, k + 1)

rectangle(s, x, y, width, height, color) ==
    IF x + width > s.width \/ y + height > s.height
    THEN [res |-> InvalidArgument, scr |-> s]
    ELSE rectangle_loop(s, x, y, width, height, color, 0)

-----------------------------------------------------------------------------
(* The glyph source: font_16, font_32 and font_64 give each character a     *)
(* packed bitmap of fontsize rows, MSB first, whose width in pixels is      *)
(* len * 8 / fontsize. A glyph has its top-left pixel set and no other.     *)

\* the width in bytes of the glyph of ch: "W" is two bytes wide at fontsize
\* 16, every other character one byte; at 32 and 64 twice and four times that
glyph_row_bytes(fontsize, ch) == (fontsize \div 16) * (IF ch = "W" THEN 2 ELSE 1)

extract_font(fontsize, ch) ==
    [n \in 1..(glyph_row_bytes(fontsize, ch) * fontsize) |-> IF n = 1 THEN 128 ELSE 0]

-----------------------------------------------------------------------------
(* Screen::text. `placed` lists, for every glyph blitted, the index k of its *)
(* character, the cursor (bx, by) on reaching the character, the glyph width *)
(* g and the position (ax, ay) given to bitmap.                              *)

\* The loop of text wrapping already when the glyph ends at the right edge.
RECURSIVE text_loop_wrap_at_edge(_, _, _, _, _, _, _, _, _)
text_loop_wrap_at_edge(s, x, fontsize, chars, color, k, cursor_x, cursor_y, placed) ==
    IF k > Len(chars)
    THEN [res |-> Ok, scr |-> s, cursor |-> cursor_x, placed |-> placed]
    ELSE IF chars[k] = "\n"
    THEN text_loop_wrap_at_edge(s, x, fontsize, chars, color, k + 1, x, cursor_y + fontsize, placed)
    ELSE LET font  == extract_font(fontsize, chars[k])
             width == (Len(font) \div fontsize) * 8
             wrap  == cursor_x + width >= get_width(s)
             ax    == IF wrap THEN x ELSE cursor_x
             ay    == IF wrap THEN cursor_y + fontsize ELSE cursor_y
             r     == bitmap(s, ax, ay, width, fontsize, font, color)
         IN  IF r.res # Ok
             THEN [res |-> r.res, scr |-> r.scr, cursor |-> ax, placed |-> placed]
             ELSE text_loop_wrap_at_edge(r.scr, x, fontsize, chars, color, k + 1, ax + width, ay,
                      Append(placed, [k |-> k, bx |-> cursor_x, by |-> cursor_y, g |-> width,
                                      ax |-> ax, ay |-> ay]))

\* The loop of text from the k-th character on.
RECURSIVE text_loop(_, _, _, _, _, _, _, _, _)
text_loop(s, x, fontsize, chars, color, k, cursor_x, cursor_y, placed) ==
    IF k > Len(chars)
    THEN [res |-> Ok, scr |-> s, cursor |-> cursor_x, placed |-> placed]
    ELSE IF chars[k] = "\n"
    THEN text_loop(s, x, fontsize, chars, color, k + 1, x, cursor_y + fontsize, placed)
    ELSE LET font  == extract_font(fontsize, chars[k])
             width == (Len(font) \div fontsize) * 8
             wrap  == cursor_x + width > get_width(s)
             ax    == IF wrap THEN x ELSE cursor_x
             ay    == IF wrap THEN cursor_y + fontsize ELSE cursor_y
             r     == bitmap(s, ax, ay, width, fontsize, font, color)
         IN  IF r.res # Ok
             THEN [res |-> r.res, scr |-> r.scr, cursor |-> ax, placed |-> placed]
             ELSE text_loop(r.scr, x, fontsize, chars, color, k + 1, ax + width, ay,
                      Append(placed, [k |-> k, bx |-> cursor_x, by |-> cursor_y, g |-> width,
                                      ax |-> ax, ay |-> ay]))

\* text drawing an unsupported font size with font_16
text_defaulting_font(s, x, y, fontsize, chars, color) ==
    IF fontsize \notin {16, 32, 64}
    THEN text_loop(s, x, 16, chars, color, 1, x, y, <<>>)
    ELSE text_loop(s, x, fontsize, chars, color, 1, x, y, <<>>)

\* text restoring the canvas when a glyph fails
text_rolling_back(s, x, y, fontsize, chars, color) ==
    IF fontsize \notin {16, 32, 64}
    THEN [res |-> InvalidArgument, scr |-> s, cursor |-> x, placed |-> <<>>]
    ELSE LET r == text_loop(s, x, fontsize, chars, color, 1, x, y, <<>>)
         IN  IF r.res # Ok THEN [r EXCEPT !.scr = s] ELSE r

\* text returning the x it was given
text_returning_origin(s, x, y, fontsize, chars, color) ==
    IF fontsize \notin {16, 32, 64}
    THEN [res |-> InvalidArgument, scr |-> s, cursor |-> x, placed |-> <<>>]
    ELSE [text_loop(s, x, fontsize, chars, color, 1, x, y, <<>>) EXCEPT !.cursor = x]

text(s, x, y, fontsize, chars, color) ==
    IF fontsize \notin {16, 32, 64}
    THEN [res |-> InvalidArgument, scr |-> s, cursor |-> x, placed |-> <<>>]
    ELSE text_loop(s, x, fontsize, chars, color, 1, x, y, <<>>)

-----------------------------------------------------------------------------
(* SSD1683 command bytes *)

DRIVER_CONTROL == 1
WRITE_DUMMY == 58
WRITE_GATELINE == 59
DATA_MODE == 17
SET_RAMXPOS == 68
SET_RAMYPOS == 69
WRITE_VCOM == 44
WRITE_BORDER == 60
SET_RAMXCOUNT == 78
SET_RAMYCOUNT == 79
WRITE_RAM == 36
WRITE_ALTRAM == 38
MASTER_ACTIVATE == 32
SOFT_RESET == 18

-----------------------------------------------------------------------------
(* struct SSD1683: draw as the sequence of port operations it issues.       *)
(* "rst" and "dc" write a GPIO level v, "spi" writes bytes (v is 0 when the *)
(* write is the one of send_command, 1 when of send_data), "sleep" sleeps   *)
(* v milliseconds, "wait" is the busy-wait loop, "ret" returns Err.         *)

PortOp(k, v, bytes) == [k |-> k, v |-> v, bytes |-> bytes]

\* `x as u8`
AsU8(x) == x % 256

\* The loop of wait_for_busy given up after MaxPolls polls.
busy_wait_timeout(is_high, n) == ~is_high \/ n >= MaxPolls

\* The loop condition of wait_for_busy, negated: the loop is left when the pin
\* reads low, however many polls n were made.
busy_wait_exits(is_high, n) == ~is_high

wait_for_busy == <<PortOp("wait", 0, <<>>)>>

\* send_command that does not lower the data/command line first
send_command_without_low(cmd) ==
    <<PortOp("spi", 0, <<cmd>>), PortOp("dc", 1, <<>>)>>

send_command(cmd) ==
    <<PortOp("dc", 0, <<>>), PortOp("spi", 0, <<cmd>>), PortOp("dc", 1, <<>>)>>

send_data(data) ==
    <<PortOp("dc", 1, <<>>), PortOp("spi", 1, data)>>

send_command_data(cmd, data) == send_command(cmd) \o send_data(<<data>>)

\* reset returning without the busy-wait
reset_no_wait ==
    <<PortOp("rst", 0, <<>>), PortOp("sleep", 10, <<>>),
      PortOp("rst", 1, <<>>), PortOp("sleep", 10, <<>>)>>
    \o send_command(SOFT_RESET)
    \o <<PortOp("sleep", 1000, <<>>)>>

reset ==
    <<PortOp("rst", 0, <<>>), PortOp("sleep", 10, <<>>),
      PortOp("rst", 1, <<>>), PortOp("sleep", 10, <<>>)>>
    \o send_command(SOFT_RESET)
    \o <<PortOp("sleep", 1000, <<>>)>>
    \o wait_for_busy

\* The loop body of build_ram_data for the k-th pair (x, y), x outermost.
RECURSIVE build_ram_loop(_, _, _, _)
build_ram_loop(s, color, data, k) ==
    IF k >= get_width(s) * get_height(s)
    THEN data
    ELSE LET x   == k \div get_height(s)
             y   == k % get_height(s)
             pos == x + y * get_width(s)
         IN  IF get_pixel(s, x, y).color = color
             THEN build_ram_loop(s, color,
                      Put(data, pos \div 8, OrBit(At(data, pos \div 8), 7 - (pos % 8))), k + 1)
             ELSE build_ram_loop(s, color, data, k + 1)

\* build_ram_data packing the first pixel of a byte into its lowest bit
RECURSIVE build_ram_loop_lsb(_, _, _, _)
build_ram_loop_lsb(s, color, data, k) ==
    IF k >= get_width(s) * get_height(s)
    THEN data
    ELSE LET x   == k \div get_height(s)
             y   == k % get_height(s)
             pos == x + y * get_width(s)
         IN  IF get_pixel(s, x, y).color = color
             THEN build_ram_loop_lsb(s, color,
                      Put(data, pos \div 8, OrBit(At(data, pos \div 8), pos % 8)), k + 1)
             ELSE build_ram_loop_lsb(s, color, data, k + 1)

build_ram_data_lsb(s, color) ==
    build_ram_loop_lsb(s, color, Filled((get_width(s) * get_height(s)) \div 8, 0), 0)

build_ram_data(s, color) ==
    build_ram_loop(s, color, Filled((get_width(s) * get_height(s)) \div 8, 0), 0)

\* The registers with the height sent high byte first.
draw_registers_big_endian(s) ==
    send_command(DRIVER_CONTROL)
    \o send_data(<<AsU8((get_height(s) - 1) \div 256), AsU8(get_height(s) - 1), 0>>)
    \o send_command_data(WRITE_DUMMY, 27)
    \o send_command_data(WRITE_GATELINE, 11)
    \o send_command_data(DATA_MODE, 3)
    \o send_command(SET_RAMXPOS)
    \o send_data(<<0, AsU8(get_width(s) \div 8 - 1)>>)
    \o send_command(SET_RAMYPOS)
    \o send_data(<<0, 0, AsU8((get_height(s) - 1) \div 256), AsU8(get_height(s) - 1)>>)
    \o send_command_data(WRITE_VCOM, 112)

\* draw, lines 124-142: driver control, timing, data mode, RAM window, VCOM
draw_registers(s) ==
    send_command(DRIVER_CONTROL)
    \o send_data(<<AsU8(get_height(s) - 1), AsU8((get_height(s) - 1) \div 256), 0>>)
    \o send_command_data(WRITE_DUMMY, 27)
    \o send_command_data(WRITE_GATELINE, 11)
    \o send_command_data(DATA_MODE, 3)
    \o send_command(SET_RAMXPOS)
    \o send_data(<<0, AsU8(get_width(s) \div 8 - 1)>>)
    \o send_command(SET_RAMYPOS)
    \o send_data(<<0, 0, AsU8(get_height(s) - 1), AsU8((get_height(s) - 1) \div 256)>>)
    \o send_command_data(WRITE_VCOM, 112)

\* the border match with the inverted colours folded into their base colours
draw_border_lenient(s) ==
    send_command(WRITE_BORDER)
    \o CASE get_border_color(s) = White -> send_data(<<1>>)
         [] get_border_color(s) \in {Black, InvBlack} -> send_data(<<0>>)
         [] get_border_color(s) \in {Red, InvRed} -> send_data(<<6>>)

\* draw, lines 143-151: the border waveform
draw_border(s) ==
    send_command(WRITE_BORDER)
    \o CASE get_border_color(s) = White -> send_data(<<1>>)
         [] get_border_color(s) = Black -> send_data(<<0>>)
         [] get_border_color(s) = Red   -> send_data(<<6>>)
         [] OTHER -> <<PortOp("ret", 0, <<>>)>>

\* the Y counter programmed before the X counter
draw_counters_swapped ==
    send_command(SET_RAMYCOUNT)
    \o send_data(<<0, 0>>)
    \o send_command_data(SET_RAMXCOUNT, 0)

\* draw, lines 153-155: the RAM address counters
draw_counters ==
    send_command_data(SET_RAMXCOUNT, 0)
    \o send_command(SET_RAMYCOUNT)
    \o send_data(<<0, 0>>)

\* draw, lines 157-163: the two RAM payloads
draw_ram(s) ==
    send_command(WRITE_RAM)
    \o send_data(build_ram_data(s, White))
    \o send_command(WRITE_ALTRAM)
    \o send_data(build_ram_data(s, Red))

\* the refresh triggered before the busy-wait
draw_activate_early ==
    send_command(MASTER_ACTIVATE) \o wait_for_busy

\* draw, lines 165-166: wait, then trigger the refresh
draw_activate ==
    wait_for_busy \o send_command(MASTER_ACTIVATE)

draw(s) ==
    reset \o draw_registers(s) \o draw_border(s) \o draw_counters \o draw_ram(s) \o draw_activate

\* a failed port operation whose error is dropped: draw goes on
after_error_ignored(p) == p + 1

\* The `?` after a port operation at position p that failed: draw returns
\* (position 0).
after_error(p) == 0

\* a driver that remembers a completed draw and skips the reset on the next
draw_entry_cached(prev) == IF prev = Ok THEN Len(reset) + 1 ELSE 1

\* Where a call of draw starts in its sequence, whatever the draw before it
\* returned.
draw_entry(prev) == 1

-----------------------------------------------------------------------------
(* Inputs of the canvas calls *)

\* (width, height) of the canvases
Shapes == {<<8, 2>>}

\* pixel coordinates, the last two outside an 8 x 2 canvas
Points == {<<0, 0>>, <<7, 0>>, <<1, 1>>, <<4, 0>>, <<8, 0>>, <<0, 2>>}

\* rectangles (x, y, width, height), the last two outside an 8 x 2 canvas
Rects == {<<0, 0, 8, 2>>, <<0, 0, 5, 1>>, <<3, 0, 4, 2>>, <<6, 1, 2, 1>>,
          <<6, 1, 3, 1>>, <<0, 1, 8, 2>>}

\* blits (x, y, width, height, data), the last three with a wrong length and out of bounds
Blits == {<<0, 0, 8, 2, <<255, 255>>>>, <<0, 0, 8, 2, <<0, 0>>>>, <<0, 0, 8, 2, <<165, 24>>>>,
          <<2, 0, 4, 2, <<160>>>>, <<0, 1, 8, 1, <<129>>>>,
          <<0, 0, 8, 2, <<255>>>>, <<4, 0, 8, 1, <<255>>>>, <<0, 1, 8, 2, <<255, 255>>>>}

NoCall == [op |-> "new", x |-> 0, y |-> 0, w |-> 0, h |-> 0, data |-> <<>>,
           color |-> White, res |-> Ok, got |-> White,
           fontsize |-> 0, text |-> <<>>, cursor |-> 0, placed |-> <<>>, base |-> <<>>]

-----------------------------------------------------------------------------
(* The application. Handlers is the set of server tasks that may run a      *)
(* request handler; "main" is the thread of app_main. A Mutex is modelled   *)
(* by its owner, "none" when free.                                          *)

Handlers == {"h1", "h2"}

Routes == {"refresh", "post", "get", "sensor"}

\* HttpServer::new, and app_main before its loop
HttpServer_new ==
    [ note_content  |-> 0,          \* the note text, by version
      note_owner    |-> "none",
      refresh_flag  |-> FALSE,
      flag_owner    |-> "none",
      sensor_data   |-> 0,          \* number of records (at most 2 are told apart)
      sensor_owner  |-> "none",
      handler       |-> [h \in Handlers |-> [at |-> "idle", route |-> "none"]],
      served        |-> 0,          \* requests accepted so far
      main          |-> "top",      \* position of app_main in its loop
      first_draw    |-> TRUE,
      got_flag      |-> FALSE,      \* what the last get_refresh_flag returned
      content       |-> 0,          \* the note version get_note_content returned
      display       |-> 0,          \* the local Display: 0 none, else the version drawn into it
      mutations     |-> 0,          \* writes to the Display since it was created
      in_flight     |-> 0,          \* calls of ssd1683.draw that have not returned
      serialized    |-> 0,          \* number of Display writes when the draw in flight began
      sets          |-> 0,          \* /refresh handlers that set the flag since the last poll
      polled        |-> <<>> ]      \* the last two polls, latest first: what was returned, and sets before it

-----------------------------------------------------------------------------
(* The driver at rest *)

DriverIdle ==
    /\ pc = 0
    /\ log = <<>>
    /\ dc = 0
    /\ rst = 0
    /\ busy = FALSE
    /\ polls = 0
    /\ result = "None"
    /\ prevResult = "None"
    /\ ndraws = 0
    /\ app = HttpServer_new

-----------------------------------------------------------------------------
(* The canvas under the calls of the application *)

\* no call has panicked: the application is still running
Alive == last.res # Panic

Init ==
    /\ \E shape \in Shapes, border_color \in Color :
           screen = Screen_new(shape[1], shape[2], border_color)
    /\ last = NoCall
    /\ nops = 0
    /\ DriverIdle

Clear ==
    /\ nops < MaxOps
    /\ Alive
    /\ \E color \in Color :
           /\ screen' = clear(screen, color)
           /\ last' = [NoCall EXCEPT !.op = "clear", !.color = color]
    /\ nops' = nops + 1
    /\ UNCHANGED driverVars

SetPixel ==
    /\ nops < MaxOps
    /\ Alive
    /\ \E p \in Points, color \in Color :
           LET r == set_pixel(screen, p[1], p[2], color)
           IN  /\ screen' = r.scr
               /\ last' = [NoCall EXCEPT !.op = "set_pixel", !.x = p[1], !.y = p[2],
                                         !.color = color, !.res = r.res]
    /\ nops' = nops + 1
    /\ UNCHANGED driverVars

GetPixel ==
    /\ nops < MaxOps
    /\ Alive
    /\ \E p \in Points :
           LET r == get_pixel(screen, p[1], p[2])
           IN  last' = [NoCall EXCEPT !.op = "get_pixel", !.x = p[1], !.y = p[2],
                                      !.res = r.res, !.got = r.color]
    /\ nops' = nops + 1
    /\ UNCHANGED <<screen, driverVars>>

Bitmap ==
    /\ nops < MaxOps
    /\ Alive
    /\ \E b \in Blits, color \in Color :
           LET r == bitmap(screen, b[1], b[2], b[3], b[4], b[5], color)
           IN  /\ screen' = r.scr
               /\ last' = [NoCall EXCEPT !.op = "bitmap", !.x = b[1], !.y = b[2], !.w = b[3],
                                         !.h = b[4], !.data = b[5], !.color = color,
                                         !.res = r.res]
    /\ nops' = nops + 1
    /\ UNCHANGED driverVars

Rectangle ==
    /\ nops < MaxOps
    /\ Alive
    /\ \E q \in Rects, color \in Color :
           LET r == rectangle(screen, q[1], q[2], q[3], q[4], color)
           IN  /\ screen' = r.scr
               /\ last' = [NoCall EXCEPT !.op = "rectangle", !.x = q[1], !.y = q[2],
                                         !.w = q[3], !.h = q[4], !.color = color,
                                         !.res = r.res]
    /\ nops' = nops + 1
    /\ UNCHANGED driverVars

Next ==
    \/ Clear
    \/ SetPixel
    \/ GetPixel
    \/ Bitmap
    \/ Rectangle

Spec == Init /\ [][Next]_vars

-----------------------------------------------------------------------------
(* The driver drawing canvases the application has composed *)

\* new, then two overlapping rectangles: Black, Red, White and doubly set pixels
Painted(width, height, border_color) ==
    rectangle(rectangle(Screen_new(width, height, border_color),
                        0, 0, 5, 1, Black).scr,
              3, 0, 4, 1, Red).scr

\* new, clear(White), then a blit
Blitted(width, height, border_color, data, color) ==
    bitmap(clear(Screen_new(width, height, border_color), White),
           0, 0, width, height, data, color).scr

Canvases ==
    {Screen_new(8, 2, c) : c \in Color}
    \cup {Painted(8, 2, c) : c \in {White, Black, InvRed}}
    \cup {Painted(16, 1, Red), Painted(8, 3, White), clear(Screen_new(8, 2, Red), White)}
    \cup {Blitted(8, 2, Black, <<165, 24>>, Red), Blitted(16, 1, White, <<129, 60>>, InvBlack)}

\* draw for each canvas, and for the one passed to the running call
Programs == [s \in Canvases |-> draw(s)]

Program == Programs[screen]

Logged(op, level, ok) == [k |-> op.k, v |-> level, bytes |-> op.bytes, ok |-> ok]

DrawInit ==
    /\ screen \in Canvases
    /\ last = NoCall
    /\ nops = 0
    /\ pc = 0
    /\ log = <<>>
    /\ dc = 0
    /\ rst = 0
    /\ busy \in BOOLEAN
    /\ polls = 0
    /\ result = "None"
    /\ prevResult = "None"
    /\ ndraws = 0
    /\ app = HttpServer_new

\* device.draw(&screen) is called
DrawBegin ==
    /\ pc = 0
    /\ ndraws < MaxDraws
    /\ screen' \in Canvases
    /\ pc' = draw_entry(result)
    /\ log' = <<>>
    /\ polls' = 0
    /\ prevResult' = result
    /\ result' = "None"
    /\ ndraws' = ndraws + 1
    /\ UNCHANGED <<last, nops, app, dc, rst, busy>>

\* reset_pin.set_low / set_high, dc_pin.set_low / set_high succeed
GpioOk ==
    /\ pc > 0 /\ pc <= Len(Program)
    /\ Program[pc].k \in {"rst", "dc"}
    /\ rst' = IF Program[pc].k = "rst" THEN Program[pc].v ELSE rst
    /\ dc' = IF Program[pc].k = "dc" THEN Program[pc].v ELSE dc
    /\ log' = Append(log, Logged(Program[pc], Program[pc].v, TRUE))
    /\ pc' = pc + 1
    /\ UNCHANGED <<screen, last, nops, app, busy, polls, result, prevResult, ndraws>>

\* device.write succeeds: the bytes go out at the current level of the DC line
SpiOk ==
    /\ pc > 0 /\ pc <= Len(Program)
    /\ Program[pc].k = "spi"
    /\ log' = Append(log, Logged(Program[pc], dc, TRUE))
    /\ pc' = pc + 1
    /\ UNCHANGED <<screen, last, nops, app, dc, rst, busy, polls, result, prevResult, ndraws>>

\* a GPIO or SPI operation fails and `?` propagates the error
PortFail ==
    /\ pc > 0 /\ pc <= Len(Program)
    /\ Program[pc].k \in {"rst", "dc", "spi"}
    /\ log' = Append(log, Logged(Program[pc], IF Program[pc].k = "spi" THEN dc ELSE Program[pc].v, FALSE))
    /\ pc' = after_error(pc)
    /\ result' = IF pc' = 0 THEN HardwareIO ELSE result
    /\ UNCHANGED <<screen, last, nops, app, dc, rst, busy, polls, prevResult, ndraws>>

\* sleep(Duration)
Sleep ==
    /\ pc > 0 /\ pc <= Len(Program)
    /\ Program[pc].k = "sleep"
    /\ pc' = pc + 1
    /\ UNCHANGED <<screen, last, nops, app, log, dc, rst, busy, polls, result, prevResult, ndraws>>

\* wait_for_busy: busy_pin.is_high() is true, sleep 10 ms and poll again
BusyWaitSleep ==
    /\ pc > 0 /\ pc <= Len(Program)
    /\ Program[pc].k = "wait"
    /\ ~busy_wait_exits(busy, polls)
    /\ polls' = IF polls < MaxPolls THEN polls + 1 ELSE polls
    /\ UNCHANGED <<screen, last, nops, app, pc, log, dc, rst, busy, result, prevResult, ndraws>>

\* wait_for_busy: the loop is left
BusyWaitExit ==
    /\ pc > 0 /\ pc <= Len(Program)
    /\ Program[pc].k = "wait"
    /\ busy_wait_exits(busy, polls)
    /\ log' = Append(log, [k |-> "busy", v |-> IF busy THEN 1 ELSE 0, bytes |-> <<>>, ok |-> TRUE])
    /\ pc' = pc + 1
    /\ UNCHANGED <<screen, last, nops, app, dc, rst, busy, polls, result, prevResult, ndraws>>

\* return Err(WmError::InvalidArgument)
ReturnErr ==
    /\ pc > 0 /\ pc <= Len(Program)
    /\ Program[pc].k = "ret"
    /\ result' = InvalidArgument
    /\ pc' = 0
    /\ UNCHANGED <<screen, last, nops, app, log, dc, rst, busy, polls, prevResult, ndraws>>

\* Ok(())
ReturnOk ==
    /\ pc = Len(Program) + 1
    /\ result' = Ok
    /\ pc' = 0
    /\ UNCHANGED <<screen, last, nops, app, log, dc, rst, busy, polls, prevResult, ndraws>>

\* the controller asserts or deasserts its busy line
BusyChange ==
    /\ busy' = ~busy
    /\ UNCHANGED <<screen, last, nops, app, pc, log, dc, rst, polls, result, prevResult, ndraws>>

DrawStep ==
    \/ GpioOk
    \/ SpiOk
    \/ Sleep
    \/ BusyWaitSleep
    \/ BusyWaitExit
    \/ ReturnErr
    \/ ReturnOk

DrawNext ==
    \/ DrawBegin
    \/ DrawStep
    \/ PortFail
    \/ BusyChange

DrawSpec == DrawInit /\ [][DrawNext]_vars

\* The thread that called draw keeps running: every step of draw that can be
\* taken is eventually taken. Port failures, the controller's busy line and
\* further calls of draw are under no obligation.
DrawLiveSpec == DrawSpec /\ WF_vars(DrawStep)

-----------------------------------------------------------------------------
(* Reading the canvas and the log *)

PixelIndexes(s) == 0..(s.width * s.height - 1)

BlackBit(s, pos) == TestBit(At(s.black_bitmap, pos \div 8), pos % 8)

RedBit(s, pos) == TestBit(At(s.red_bitmap, pos \div 8), pos % 8)

\* the colour get_pixel reads at linear position pos
Reads(s, pos) == get_pixel(s, pos % s.width, pos \div s.width).color

\* a draw has been called and has returned
Returned == pc = 0 /\ ndraws > 0

IsSpi(i) == log[i].k = "spi"

\* entry i is a single byte c written with the data/command line low
IsCommand(i, c) == IsSpi(i) /\ log[i].v = 0 /\ log[i].bytes = <<c>>

\* entry j is the first SPI write after entry i
FollowsOnBus(i, j) == j > i /\ IsSpi(j) /\ \A m \in (i + 1)..(j - 1) : ~IsSpi(m)

\* entry j is a completed transfer of a whole plane as data
IsPlanePayload(j) ==
    /\ IsSpi(j) /\ log[j].v = 1 /\ log[j].ok
    /\ Len(log[j].bytes) = (screen.width * screen.height) \div 8

IsBusyLow(i) == log[i].k = "busy" /\ log[i].v = 0

AllOk == \A i \in 1..Len(log) : log[i].ok

ValidBorder == screen.border_color \in {White, Black, Red}

-----------------------------------------------------------------------------
(* Claims about the canvas *)

\* C1: after any sequence of canvas operations no pixel position has its bit
\* set in both the black plane and the red plane.
C1_NoPixelInBothPlanes ==
    \A pos \in PixelIndexes(screen) : ~(BlackBit(screen, pos) /\ RedBit(screen, pos))

\* C2: from any reachable canvas state, set_pixel(x, y, c) with (x, y) in
\* bounds and c White, Black or Red, followed by get_pixel(x, y), returns c.
C2_SetThenGet ==
    (last.op = "set_pixel" /\ last.res = Ok /\ last.color \in {White, Black, Red})
        => get_pixel(screen, last.x, last.y).color = last.color

-----------------------------------------------------------------------------
(* Claims about draw *)

\* C3: on a successful draw, bit (7 - pos mod 8) of byte pos / 8 of the B/W-RAM
\* payload is 1 iff the pixel at pos reads White, and of the Red-RAM payload iff
\* it reads Red; both payloads have width * height / 8 bytes, and an all-White
\* canvas gives all 0xFF and all 0x00.
C3_RamPayloads ==
    (Returned /\ result = Ok) =>
        \E a, b \in 1..Len(log) :
            /\ IsCommand(a, 36) /\ IsCommand(b, 38)
            /\ \E i, j \in 1..Len(log) :
                /\ FollowsOnBus(a, i) /\ FollowsOnBus(b, j)
                /\ IsPlanePayload(i) /\ IsPlanePayload(j)
                /\ \A pos \in PixelIndexes(screen) :
                    /\ TestBit(At(log[i].bytes, pos \div 8), 7 - (pos % 8))
                           <=> (Reads(screen, pos) = White)
                    /\ TestBit(At(log[j].bytes, pos \div 8), 7 - (pos % 8))
                           <=> (Reads(screen, pos) = Red)
                /\ (\A pos \in PixelIndexes(screen) : Reads(screen, pos) = White)
                       => /\ \A n \in 1..Len(log[i].bytes) : log[i].bytes[n] = 255
                          /\ \A n \in 1..Len(log[j].bytes) : log[j].bytes[n] = 0

C3_DrewThreeColours ==
    /\ Returned /\ result = Ok
    /\ \E p, q, r \in PixelIndexes(screen) :
           Reads(screen, p) = White /\ Reads(screen, q) = Black /\ Reads(screen, r) = Red

IsCommandEntry(e) == e.k = "spi" /\ e.v = 0

CommandBytes == LET c == SelectSeq(log, IsCommandEntry) IN [i \in 1..Len(c) |-> c[i].bytes]

\* C4: on a successful draw the command bytes on the bus are, once each and in
\* this order, 0x12 0x01 0x3A 0x3B 0x11 0x44 0x45 0x2C 0x3C 0x4E 0x4F 0x24 0x26 0x20.
C4_CommandOrder ==
    (Returned /\ result = Ok) =>
        CommandBytes = << <<18>>, <<1>>, <<58>>, <<59>>, <<17>>, <<68>>, <<69>>, <<44>>,
                          <<60>>, <<78>>, <<79>>, <<36>>, <<38>>, <<32>> >>

C4_AllCommandsSent ==
    Returned /\ result = Ok /\ Len(CommandBytes) = 14 /\ prevResult = "None"

\* what the log holds, in order, when the reset handshake is complete
Handshake ==
    << <<"rst", 0, <<>>>>, <<"rst", 1, <<>>>>, <<"dc", 0, <<>>>>, <<"spi", 0, <<18>>>>,
       <<"dc", 1, <<>>>>, <<"busy", 0, <<>>>> >>

\* C5: every draw begins with reset low, reset high, SOFT_RESET, then the wait
\* until the busy line is observed low; nothing else is written to the bus
\* before that observation.
C5_ResetHandshakeFirst ==
    /\ \A i \in 1..Len(log) :
           i <= Len(Handshake) => <<log[i].k, log[i].v, log[i].bytes>> = Handshake[i]
    /\ \A i \in 1..Len(log) :
           (IsSpi(i) /\ ~(IsCommand(i, 18) /\ \A m \in 1..(i - 1) : ~IsSpi(m)))
               => \E j \in 1..(i - 1) : IsBusyLow(j)

C5_BlockedThenProgrammed ==
    pc > 0 /\ polls > 0 /\ \E i \in 1..Len(log) : IsCommand(i, 1)

\* C6: MASTER_ACTIVATE is sent only after both RAM payloads have been fully
\* transmitted and the busy line has then been observed low.
C6_ActivateAfterPayloadsAndBusy ==
    \A i \in 1..Len(log) :
        IsCommand(i, 32) =>
            \E a, b \in 1..(i - 1) :
                /\ IsCommand(a, 36) /\ IsCommand(b, 38) /\ a < b
                /\ \E m, n \in 1..(i - 1) :
                    /\ FollowsOnBus(a, m) /\ IsPlanePayload(m) /\ m < b
                    /\ FollowsOnBus(b, n) /\ IsPlanePayload(n)
                    /\ \E w \in (n + 1)..(i - 1) : IsBusyLow(w)

C6_Activated ==
    \E i \in 1..Len(log) : IsCommand(i, 32) /\ log[i].ok

\* C7: when a GPIO or SPI operation fails, draw returns that error at once: the
\* failed operation is the last port operation of the draw, and is issued once.
C7_FailureEndsDraw ==
    /\ \A i \in 1..Len(log) :
           ~log[i].ok => (i = Len(log) /\ pc = 0 /\ result = HardwareIO)
    /\ result = HardwareIO => (Len(log) > 0 /\ ~log[Len(log)].ok)

C7_FailedMidway ==
    result = HardwareIO /\ Len(log) > 20 /\ log[Len(log)].k = "spi"

\* the bytes of the SPI writes of the log, in order
RECURSIVE SpiBytes(_)
SpiBytes(l) ==
    IF l = <<>> THEN <<>>
    ELSE IF Head(l).k = "spi" THEN Head(l).bytes \o SpiBytes(Tail(l))
    ELSE SpiBytes(Tail(l))

IsPrefix(a, b) == Len(a) <= Len(b) /\ a = SubSeq(b, 1, Len(a))

\* 1 if the pixel at pos reads c
ReadsAs(s, c, pos) == IF Reads(s, pos) = c THEN 1 ELSE 0

\* the pixels that read c, eight to a byte, first pixel in the top bit
PackedPlane(s, c) ==
    [n \in 1..((s.width * s.height) \div 8) |->
        LET p == 8 * (n - 1)
        IN  128 * ReadsAs(s, c, p) + 64 * ReadsAs(s, c, p + 1) + 32 * ReadsAs(s, c, p + 2)
            + 16 * ReadsAs(s, c, p + 3) + 8 * ReadsAs(s, c, p + 4) + 4 * ReadsAs(s, c, p + 5)
            + 2 * ReadsAs(s, c, p + 6) + ReadsAs(s, c, p + 7)]

\* every byte a full draw of canvas s writes to the bus: reset, driver control,
\* dummy line, gate line, data mode, X window, Y window, VCOM, border,
\* counters, the two planes, activation
FullSequence(s) ==
    LET lo == (s.height - 1) % 256
        hi == ((s.height - 1) \div 256) % 256
    IN  <<18, 1, lo, hi, 0, 58, 27, 59, 11, 17, 3, 68, 0, (s.width \div 8 - 1) % 256,
          69, 0, 0, lo, hi, 44, 112, 60>>
        \o (CASE s.border_color = White -> <<1>>
              [] s.border_color = Black -> <<0>>
              [] s.border_color = Red   -> <<6>>
              [] OTHER -> <<>>)
        \o (IF s.border_color \in {White, Black, Red}
            THEN <<78, 0, 79, 0, 0, 36>> \o PackedPlane(s, White)
                 \o <<38>> \o PackedPlane(s, Red) \o <<32>>
            ELSE <<>>)

\* C8: the driver keeps no state between draws: whatever the draw before
\* returned, a draw starts with the hardware reset and writes the full
\* sequence for the canvas passed to it, from its first byte.
C8_EveryDrawFromScratch ==
    ndraws > 0 =>
        /\ Len(log) > 0 => <<log[1].k, log[1].v>> = <<"rst", 0>>
        /\ IsPrefix(SpiBytes(log), FullSequence(screen))
        /\ (Returned /\ result = Ok) => SpiBytes(log) = FullSequence(screen)

C8_RedrawnAfterFailure ==
    Returned /\ ndraws > 1 /\ prevResult = HardwareIO /\ result = Ok

\* C10: the data byte after WRITE_BORDER is 0x01 for a White border, 0x00 for
\* Black and 0x06 for Red; with an InvBlack or InvRed border draw sends no such
\* byte and, unless a port operation failed before, returns InvalidArgument.
C10_BorderWaveform ==
    /\ \A i, j \in 1..Len(log) :
           (IsCommand(i, 60) /\ FollowsOnBus(i, j)) =>
               /\ log[j].v = 1
               /\ \/ screen.border_color = White /\ log[j].bytes = <<1>>
                  \/ screen.border_color = Black /\ log[j].bytes = <<0>>
                  \/ screen.border_color = Red /\ log[j].bytes = <<6>>
    /\ (ndraws > 0 /\ ~ValidBorder) => result # Ok
    /\ (Returned /\ ~ValidBorder /\ AllOk) =>
           /\ result = InvalidArgument
           /\ \E i \in 1..Len(log) : IsCommand(i, 60) /\ \A m \in (i + 1)..Len(log) : ~IsSpi(m)
    /\ result = InvalidArgument => ~ValidBorder

C10_InvalidBorderRejected ==
    Returned /\ result = InvalidArgument /\ screen.border_color = InvBlack

\* draw is inside one of its two busy-wait loops
AtBusyWait == pc > 0 /\ pc <= Len(Program) /\ Program[pc].k = "wait"

NoPortFailure == result # HardwareIO

ActivateSent == \E i \in 1..Len(log) : IsCommand(i, 32)

\* C9: the busy-wait has no timeout. If no port operation fails and each
\* busy-wait comes to observe the line low, a draw that has started returns,
\* having sent MASTER_ACTIVATE; if the busy line stays high forever, no draw
\* ever sends MASTER_ACTIVATE and, no port operation failing, none returns.
C9_BusyWaitUnbounded ==
    /\ ([]NoPortFailure /\ []ValidBorder /\ [](AtBusyWait => <>(~AtBusyWait)))
           => [](pc > 0 => <>(Returned /\ result = Ok /\ ActivateSent))
    /\ []busy => [](~ActivateSent)
    /\ ([]busy /\ []NoPortFailure) => [](ndraws > 0 => pc > 0)

C9_WaitedThenActivated ==
    Returned /\ result = Ok /\ polls >= MaxPolls /\ ActivateSent /\ busy

-----------------------------------------------------------------------------
(* Claims about the canvas calls *)

\* every pixel of s reads c
AllRead(s, c) == \A pos \in PixelIndexes(s) : Reads(s, pos) = c

\* C11: set_pixel and get_pixel fail with InvalidArgument for every (x, y) with
\* x >= width or y >= height, and a failing set_pixel leaves both planes
\* unchanged.
C11_OutOfBoundsRejected ==
    [][(last'.op \in {"set_pixel", "get_pixel"}
            /\ (last'.x >= screen.width \/ last'.y >= screen.height))
        => /\ last'.res = InvalidArgument
           /\ screen' = screen]_vars

C11_SetPixelOutside ==
    /\ last.op = "set_pixel" /\ last.res = InvalidArgument
    /\ last.x >= screen.width /\ last.y < screen.height
    /\ nops = MaxOps

\* C12: from any canvas state, after clear(c) every pixel reads c, for c White,
\* Black or Red; clear always succeeds.
C12_ClearFills ==
    last.op = "clear" =>
        /\ last.res = Ok
        /\ last.color \in {White, Black, Red} => AllRead(screen, last.color)

C12_ClearedToRed ==
    last.op = "clear" /\ last.color = Red /\ nops = MaxOps /\ screen.border_color = Black

\* C13: new(width, height, border_color) yields two planes of width*height/8
\* bytes in which every pixel reads the border colour when it is Black or Red
\* and White otherwise; after a following clear(White) every pixel reads White.
C13_NewFillsBorderColour ==
    /\ nops = 0 =>
        /\ Len(screen.black_bitmap) = (screen.width * screen.height) \div 8
        /\ Len(screen.red_bitmap) = (screen.width * screen.height) \div 8
        /\ AllRead(screen, IF screen.border_color \in {Black, Red}
                           THEN screen.border_color ELSE White)
    /\ (nops = 1 /\ last.op = "clear" /\ last.color = White) => AllRead(screen, White)

C13_NewRed ==
    nops = 0 /\ screen.border_color = Red /\ AllRead(screen, Red)

\* C15: bitmap fails with InvalidArgument whenever data.len() # w*h/8 or
\* x + w > width or y + h > height, and then leaves both planes unchanged.
C15_BadBlitRejected ==
    [][(last'.op = "bitmap"
            /\ \/ Len(last'.data) # (last'.w * last'.h) \div 8
               \/ last'.x + last'.w > screen.width
               \/ last'.y + last'.h > screen.height)
        => /\ last'.res = InvalidArgument
           /\ screen' = screen]_vars

C15_BlitBelowCanvas ==
    /\ last.op = "bitmap" /\ last.res = InvalidArgument
    /\ Len(last.data) = (last.w * last.h) \div 8
    /\ last.x + last.w <= screen.width
    /\ last.y + last.h > screen.height
    /\ nops = MaxOps

\* rectangle q lies inside canvas s
InBounds(s, q) == q[1] + q[3] <= s.width /\ q[2] + q[4] <= s.height

\* C18: from any canvas state and for any in-bounds rectangle,
\* bitmap(x, y, w, h, data, InvRed) with data all zero bytes of length w*h/8
\* ends as rectangle(x, y, w, h, Red) does, with the same two planes.
C18_ZeroInvRedIsRedRectangle ==
    \A q \in Rects :
        InBounds(screen, q) =>
            LET b == bitmap(screen, q[1], q[2], q[3], q[4], Filled((q[3] * q[4]) \div 8, 0), InvRed)
                r == rectangle(screen, q[1], q[2], q[3], q[4], Red)
            IN  /\ b.res = r.res
                /\ b.scr.black_bitmap = r.scr.black_bitmap
                /\ b.scr.red_bitmap = r.scr.red_bitmap

\* the linear position pos of canvas s lies inside the rectangle of call c
Inside(s, c, pos) ==
    /\ pos % s.width \in c.x..(c.x + c.w - 1)
    /\ pos \div s.width \in c.y..(c.y + c.h - 1)

\* C19: rectangle(x, y, w, h, color) fails with InvalidArgument, leaving the
\* canvas unchanged, when x + w > width or y + h > height; otherwise
\* afterwards every pixel inside the rectangle reads color (for White, Black
\* and Red) and every pixel outside it is unchanged.
C19_RectangleFills ==
    [][last'.op = "rectangle"
        => IF last'.x + last'.w > screen.width \/ last'.y + last'.h > screen.height
           THEN last'.res = InvalidArgument /\ screen' = screen
           ELSE /\ last'.res = Ok
                /\ \A pos \in PixelIndexes(screen) :
                       IF Inside(screen, last', pos)
                       THEN last'.color \in {White, Black, Red}
                                => Reads(screen', pos) = last'.color
                       ELSE /\ BlackBit(screen', pos) = BlackBit(screen, pos)
                            /\ RedBit(screen', pos) = RedBit(screen, pos)]_vars

-----------------------------------------------------------------------------
(* Blits of sources two bytes wide *)

WideShapes == {<<16, 2>>}

\* blits (x, y, width, height, data) for a 16 x 2 canvas, the last out of bounds
WideBlits == {<<0, 0, 16, 2, <<255, 255, 255, 255>>>>, <<0, 0, 16, 2, <<193, 6, 40, 19>>>>,
              <<0, 0, 8, 2, <<255, 255>>>>, <<8, 1, 8, 1, <<178>>>>,
              <<0, 0, 16, 1, <<0, 77>>>>, <<8, 0, 16, 1, <<1, 2>>>>}

BlitInit ==
    /\ \E shape \in WideShapes, border_color \in Color :
           screen = Screen_new(shape[1], shape[2], border_color)
    /\ last = NoCall
    /\ nops = 0
    /\ DriverIdle

WideBitmap ==
    /\ nops < MaxOps
    /\ Alive
    /\ \E b \in WideBlits, color \in Color :
           LET r == bitmap(screen, b[1], b[2], b[3], b[4], b[5], color)
           IN  /\ screen' = r.scr
               /\ last' = [NoCall EXCEPT !.op = "bitmap", !.x = b[1], !.y = b[2], !.w = b[3],
                                         !.h = b[4], !.data = b[5], !.color = color,
                                         !.res = r.res]
    /\ nops' = nops + 1
    /\ UNCHANGED driverVars

BlitNext ==
    \/ Clear
    \/ WideBitmap

BlitSpec == BlitInit /\ [][BlitNext]_vars

\* source pixel (i, j) of the blit call c is a foreground pixel
Foreground(c, i, j) ==
    LET bit == TestBit(At(c.data, i \div 8 + j * (c.w \div 8)), 7 - (i % 8))
    IN  IF c.color \in {InvBlack, InvRed} THEN ~bit ELSE bit

\* the linear position pos of canvas s is a foreground pixel of the blit call c
ForegroundAt(s, c, pos) ==
    LET i == (pos % s.width) - c.x
        j == (pos \div s.width) - c.y
    IN  /\ i \in 0..(c.w - 1)
        /\ j \in 0..(c.h - 1)
        /\ Foreground(c, i, j)

BaseColor(color) ==
    CASE color = InvBlack -> Black
      [] color = InvRed -> Red
      [] OTHER -> color

\* C16: for a successful bitmap(x, y, w, h, data, color) with w a multiple of 8,
\* pixel (x+i, y+j) is foreground iff bit (7 - i mod 8) of data[i/8 + j*(w/8)]
\* is 1 (White, Black, Red) or 0 (InvBlack, InvRed), and every foreground pixel
\* ends with the plane bits set_pixel gives it with the base colour.
C16_ForegroundWritten ==
    [][(last'.op = "bitmap" /\ last'.res = Ok /\ last'.w % 8 = 0)
        => \A i \in 0..(last'.w - 1), j \in 0..(last'.h - 1) :
               Foreground(last', i, j) =>
                   LET px   == last'.x + i
                       py   == last'.y + j
                       pos  == px + py * screen.width
                       want == set_pixel(screen, px, py, BaseColor(last'.color)).scr
                   IN  /\ BlackBit(screen', pos) = BlackBit(want, pos)
                       /\ RedBit(screen', pos) = RedBit(want, pos)]_vars

C16_TwoByteRowsBlitted ==
    /\ last.op = "bitmap" /\ last.res = Ok /\ last.w = 16 /\ last.h = 2
    /\ last.color = InvRed
    /\ \E i \in 0..15, j \in 0..1 : Foreground(last, i, j)
    /\ \E i \in 0..15, j \in 0..1 : ~Foreground(last, i, j)
    /\ nops = MaxOps

\* C17: a blit is additive: no plane bit changes at a position that is not a
\* foreground pixel, a Black/InvBlack blit never changes the red plane and a
\* Red/InvRed blit never changes the black plane; an all-ones source blitted at
\* (0, 0) with Black sets exactly the black bits of its rectangle.
C17_BlitAdditive ==
    [][last'.op = "bitmap"
        => /\ last'.res = Ok =>
                  \A pos \in PixelIndexes(screen) :
                      ~ForegroundAt(screen, last', pos) =>
                          /\ BlackBit(screen', pos) = BlackBit(screen, pos)
                          /\ RedBit(screen', pos) = RedBit(screen, pos)
           /\ last'.color \in {Black, InvBlack} => screen'.red_bitmap = screen.red_bitmap
           /\ last'.color \in {Red, InvRed} => screen'.black_bitmap = screen.black_bitmap
           /\ (/\ last'.res = Ok /\ last'.color = Black
               /\ last'.x = 0 /\ last'.y = 0
               /\ \A n \in 1..Len(last'.data) : last'.data[n] = 255)
              => /\ screen'.red_bitmap = screen.red_bitmap
                 /\ \A pos \in PixelIndexes(screen) :
                        BlackBit(screen', pos) =
                            \/ BlackBit(screen, pos)
                            \/ (pos % screen.width < last'.w /\ pos \div screen.width < last'.h)]_vars

C17_OnesOverRed ==
    /\ last.op = "bitmap" /\ last.res = Ok /\ last.color = Black
    /\ last.x = 0 /\ last.y = 0 /\ last.w = 8
    /\ \A n \in 1..Len(last.data) : last.data[n] = 255
    /\ \E pos \in PixelIndexes(screen) : RedBit(screen, pos) /\ BlackBit(screen, pos)
    /\ \E pos \in PixelIndexes(screen) : RedBit(screen, pos) /\ ~BlackBit(screen, pos)

-----------------------------------------------------------------------------
(* Text on canvases 64 and 24 pixels wide, two lines of fontsize 16 high *)

MaxTexts == 1

TextShapes == {<<64, 32>>, <<24, 32>>}

\* text calls (x, y, fontsize, characters, color); 20 is not a font size
TextCalls == {<<0, 0, 16, <<"a", "b", "c", "d", "e", "f", "g", "h", "i", "j">>, Black>>,
              <<0, 0, 16, <<"a", "b", "\n", "c", "d">>, Black>>,
              <<4, 0, 16, <<"a", "b", "c">>, Red>>,
              <<8, 0, 16, <<"a", "b", "c">>, Black>>,
              <<0, 0, 16, <<"a", "W">>, Black>>,
              <<0, 0, 16, <<"a", "b", "W">>, Red>>,
              <<0, 0, 16, <<"a", "\n", "\n", "b">>, Black>>,
              <<0, 16, 16, <<"\n">>, Red>>,
              <<0, 0, 32, <<"a">>, Black>>,
              <<0, 0, 20, <<"a", "b">>, Black>>}

TextInit ==
    /\ \E shape \in TextShapes, border_color \in Color :
           screen = Screen_new(shape[1], shape[2], border_color)
    /\ last = NoCall
    /\ nops = 0
    /\ DriverIdle

Text ==
    /\ nops < MaxTexts
    /\ Alive
    /\ \E c \in TextCalls :
           LET r == text(screen, c[1], c[2], c[3], c[4], c[5])
           IN  /\ screen' = r.scr
               /\ last' = [NoCall EXCEPT !.op = "text", !.x = c[1], !.y = c[2],
                                         !.fontsize = c[3], !.text = c[4], !.color = c[5],
                                         !.res = r.res, !.cursor = r.cursor, !.placed = r.placed,
                                         !.base = screen]
    /\ nops' = nops + 1
    /\ UNCHANGED driverVars

TextNext == Text

TextSpec == TextInit /\ [][TextNext]_vars

\* the n-th glyph of the text call c is laid out as the rule says
LaidByRule(s, c, n) ==
    LET e    == c.placed[n]
        from == IF n = 1
                THEN IF e.k = 1 THEN <<c.x, c.y>> ELSE <<c.x, c.y + (e.k - 1) * c.fontsize>>
                ELSE LET d == c.placed[n - 1]
                     IN  IF e.k = d.k + 1
                         THEN <<d.ax + d.g, d.ay>>
                         ELSE <<c.x, d.ay + (e.k - d.k - 1) * c.fontsize>>
    IN  /\ c.text[e.k] # "\n"
        /\ \A k \in 1..Len(c.text) :
               ((IF n = 1 THEN 0 ELSE c.placed[n - 1].k) < k /\ k < e.k) => c.text[k] = "\n"
        /\ e.g = glyph_row_bytes(c.fontsize, c.text[e.k]) * 8
        /\ <<e.bx, e.by>> = from
        /\ <<e.ax, e.ay>> = IF e.bx + e.g > s.width
                            THEN <<c.x, e.by + c.fontsize>>
                            ELSE <<e.bx, e.by>>
        /\ c.color = Black => BlackBit(s, e.ax + e.ay * s.width)
        /\ c.color = Red => RedBit(s, e.ax + e.ay * s.width)

\* the glyphs of call c that were preceded by a line wrap
Wrapped(c) == {n \in 1..Len(c.placed) : c.placed[n].ay # c.placed[n].by}

\* C20: text lays glyphs left to right from (x, y): a newline resets the
\* horizontal cursor to x and advances the vertical cursor by fontsize, and a
\* glyph of width g is preceded by a line wrap exactly when cursor_x + g >
\* canvas width; on a canvas of width 64 with 8-pixel-wide glyphs a
\* 10-character string drawn at x = 0 wraps exactly once, after the 8th glyph.
C20_TextLayout ==
    last.op = "text" =>
        /\ \A n \in 1..Len(last.placed) : LaidByRule(screen, last, n)
        /\ last.res = Ok =>
               /\ Len(last.placed) = Cardinality({k \in 1..Len(last.text) : last.text[k] # "\n"})
               /\ last.cursor = IF last.placed = <<>> \/ last.text[Len(last.text)] = "\n"
                                THEN last.x
                                ELSE last.placed[Len(last.placed)].ax + last.placed[Len(last.placed)].g
        /\ (/\ last.res = Ok /\ screen.width = 64 /\ last.x = 0 /\ Len(last.text) = 10
            /\ \A k \in 1..10 : last.text[k] # "\n"
            /\ \A k \in 1..10 : glyph_row_bytes(last.fontsize, last.text[k]) = 1)
           => /\ Wrapped(last) = {9}
              /\ \A n \in 1..8 : <<last.placed[n].ax, last.placed[n].ay>> = <<8 * (n - 1), last.y>>
              /\ \A n \in 9..10 :
                     <<last.placed[n].ax, last.placed[n].ay>> = <<8 * (n - 9), last.y + last.fontsize>>

C20_TenGlyphsWrapOnce ==
    /\ last.op = "text" /\ last.res = Ok /\ last.fontsize = 16
    /\ screen.width = 64 /\ last.x = 0 /\ Len(last.text) = 10
    /\ Len(last.placed) = 10
    /\ Wrapped(last) = {9}
    /\ last.cursor = 16

-----------------------------------------------------------------------------
(* Construction with any width and height *)

\* sizes given to new, with and without width * height a multiple of 8
AnyShapes == {<<8, 2>>, <<4, 3>>, <<3, 3>>, <<5, 2>>}

ConstructInit ==
    /\ \E shape \in AnyShapes, border_color \in Color :
           screen = Screen_new(shape[1], shape[2], border_color)
    /\ last = NoCall
    /\ nops = 0
    /\ DriverIdle

ConstructNext ==
    \/ SetPixel
    \/ GetPixel

ConstructSpec == ConstructInit /\ [][ConstructNext]_vars

\* C14: construction fails when width * height is not a multiple of 8, so that
\* for every constructed canvas each in-bounds pixel position addresses a byte
\* that exists in both planes (and no in-bounds pixel access runs off a plane).
C14_EveryPixelHasItsByte ==
    /\ (screen.width * screen.height) % 8 = 0
    /\ \A pos \in PixelIndexes(screen) :
           /\ pos \div 8 < Len(screen.black_bitmap)
           /\ pos \div 8 < Len(screen.red_bitmap)
    /\ last.res # Panic

-----------------------------------------------------------------------------
(* Text continued on the same line from the returned cursor, as main does.  *)
(* `last` then describes the line as a whole: its first x, all characters   *)
(* and glyphs, and the canvas `base` before its first call.                 *)

\* the strings drawn from the returned cursor
ContinuedStrings == {<<"a">>, <<"W">>, <<"a", "b">>, <<"\n", "a">>}

TextContinued ==
    /\ last.op = "text"
    /\ last.res = Ok
    /\ \E chars \in ContinuedStrings :
           LET r == text(screen, last.cursor, last.y, last.fontsize, chars, last.color)
           IN  /\ screen' = r.scr
               /\ last' = [last EXCEPT !.op = "text_continued",
                                       !.text = last.text \o chars,
                                       !.res = r.res, !.cursor = r.cursor,
                                       !.placed = last.placed \o
                                           [n \in 1..Len(r.placed) |->
                                               [r.placed[n] EXCEPT !.k = @ + Len(last.text)]]]
    /\ nops' = nops + 1
    /\ UNCHANGED driverVars

ChainNext ==
    \/ Text
    \/ TextContinued

ChainSpec == TextInit /\ [][ChainNext]_vars

NoNewline(chars) == \A k \in 1..Len(chars) : chars[k] # "\n"

\* C21: text returns the cursor after the last glyph: when no wrap and no
\* newline occurs, drawing s1 at (x, y) and then s2 at (returned x, y) leaves
\* the canvas as, and returns the value of, drawing s1 s2 at (x, y) with the
\* same font size and color.
C21_ChainedEqualsConcatenated ==
    (/\ last.op = "text_continued" /\ last.res = Ok
     /\ NoNewline(last.text) /\ Wrapped(last) = {})
    => LET whole == text(last.base, last.x, last.y, last.fontsize, last.text, last.color)
       IN  /\ whole.res = Ok
           /\ whole.scr = screen
           /\ whole.cursor = last.cursor

C21_TwoFragmentsOnOneLine ==
    /\ last.op = "text_continued" /\ last.res = Ok
    /\ NoNewline(last.text) /\ Wrapped(last) = {}
    /\ Len(last.placed) = 4 /\ last.x = 4 /\ last.cursor = 44
    /\ last.color = Red /\ last.base.border_color = Black

\* C22: text called with a font size outside {16, 32, 64} fails with
\* InvalidArgument before drawing anything: both planes are unchanged.
C22_UnsupportedFontRejected ==
    [][(last'.op = "text" /\ last'.fontsize \notin {16, 32, 64})
        => /\ last'.res = InvalidArgument
           /\ screen' = screen]_vars

C22_FontSize20 ==
    /\ last.op = "text" /\ last.fontsize = 20 /\ last.res = InvalidArgument
    /\ Len(last.text) > 0 /\ last.placed = <<>>

\* canvas s after blitting the first n glyphs of the text call c at their places
RECURSIVE GlyphsDrawn(_, _, _)
GlyphsDrawn(s, c, n) ==
    IF n = 0
    THEN s
    ELSE LET e == c.placed[n]
         IN  bitmap(GlyphsDrawn(s, c, n - 1), e.ax, e.ay, e.g, c.fontsize,
                    extract_font(c.fontsize, c.text[e.k]), c.color).scr

\* the characters of chars that have a glyph, in order
GlyphIndexes(chars) == {k \in 1..Len(chars) : chars[k] # "\n"}

\* C23: text does not roll back on partial failure: when the k-th glyph's blit
\* fails, text returns InvalidArgument and the canvas holds exactly the glyphs
\* 1..k-1 drawn before the failure, with nothing from glyph k onwards.
C23_NoRollback ==
    [][(last'.op = "text" /\ last'.fontsize \in {16, 32, 64} /\ last'.res # Ok)
        => /\ last'.res = InvalidArgument
           /\ Len(last'.placed) < Cardinality(GlyphIndexes(last'.text))
           /\ \A n \in 1..Len(last'.placed) :
                  Cardinality({k \in GlyphIndexes(last'.text) : k <= last'.placed[n].k}) = n
           /\ screen' = GlyphsDrawn(screen, last', Len(last'.placed))]_vars

C23_SixGlyphsKept ==
    /\ last.op = "text" /\ last.res = InvalidArgument /\ last.fontsize = 16
    /\ Len(last.text) = 10 /\ Len(last.placed) = 6
    /\ last.base.border_color = White
    /\ screen # last.base

-----------------------------------------------------------------------------
(* The register part of draw (lines 124-142) on canvases of any size: the   *)
(* reset handshake is over, pc counts the port operations of draw_registers *)

\* (width, height) of the canvas drawn: the ends and the byte boundaries of
\* 1 <= height <= 65536 and 8 <= width <= 2048, and the first sizes beyond
Geometries ==
    {<<8, h>> : h \in {1, 2, 255, 256, 257, 300, 512, 65535, 65536, 65537}}
    \cup {<<w, 1>> : w \in {8, 15, 16, 400, 2040, 2047, 2048, 2056}}
    \cup {<<400, 300>>}

RegisterInit ==
    /\ \E g \in Geometries : screen = Screen_new(g[1], g[2], Black)
    /\ last = NoCall
    /\ nops = 0
    /\ pc = 1
    /\ log = <<>>
    /\ dc = 1
    /\ rst = 1
    /\ busy = FALSE
    /\ polls = 0
    /\ result = "None"
    /\ prevResult = "None"
    /\ ndraws = 1
    /\ app = HttpServer_new

\* dc_pin.set_low / set_high succeeds
RegisterGpioOk ==
    /\ pc > 0 /\ pc <= Len(draw_registers(screen))
    /\ draw_registers(screen)[pc].k = "dc"
    /\ dc' = draw_registers(screen)[pc].v
    /\ log' = Append(log, Logged(draw_registers(screen)[pc], draw_registers(screen)[pc].v, TRUE))
    /\ pc' = pc + 1
    /\ UNCHANGED <<screen, last, nops, app, rst, busy, polls, result, prevResult, ndraws>>

\* device.write succeeds
RegisterSpiOk ==
    /\ pc > 0 /\ pc <= Len(draw_registers(screen))
    /\ draw_registers(screen)[pc].k = "spi"
    /\ log' = Append(log, Logged(draw_registers(screen)[pc], dc, TRUE))
    /\ pc' = pc + 1
    /\ UNCHANGED <<screen, last, nops, app, dc, rst, busy, polls, result, prevResult, ndraws>>

\* a GPIO or SPI operation fails and `?` propagates the error
RegisterPortFail ==
    /\ pc > 0 /\ pc <= Len(draw_registers(screen))
    /\ log' = Append(log, Logged(draw_registers(screen)[pc],
                                 IF draw_registers(screen)[pc].k = "spi"
                                 THEN dc ELSE draw_registers(screen)[pc].v, FALSE))
    /\ pc' = 0
    /\ result' = HardwareIO
    /\ UNCHANGED <<screen, last, nops, app, dc, rst, busy, polls, prevResult, ndraws>>

RegisterNext ==
    \/ RegisterGpioOk
    \/ RegisterSpiOk
    \/ RegisterPortFail

RegisterSpec == RegisterInit /\ [][RegisterNext]_vars

\* the data written after the command byte c, when both are in the log
DataAfter(c) ==
    LET i == CHOOSE i \in 1..Len(log) : IsCommand(i, c)
        j == CHOOSE j \in 1..Len(log) : FollowsOnBus(i, j)
    IN  log[j]

RegistersSent == pc = Len(draw_registers(screen)) + 1

\* C24: for every height h in 1..65536 and width w in 8..2048, draw sends
\* DRIVER_CONTROL data [(h-1) mod 256, (h-1) div 256, 0], SET_RAMXPOS data
\* [0, w/8 - 1] and SET_RAMYPOS data [0, 0, (h-1) mod 256, (h-1) div 256]: the
\* two height bytes decode little-endian to exactly h - 1.
C24_GeometryBytes ==
    (/\ RegistersSent
     /\ screen.height \in 1..65536
     /\ screen.width \in 8..2048)
    => LET h == screen.height
           w == screen.width
       IN  /\ DataAfter(1).v = 1
           /\ DataAfter(1).bytes = <<(h - 1) % 256, (h - 1) \div 256, 0>>
           /\ DataAfter(1).bytes[1] + 256 * DataAfter(1).bytes[2] = h - 1
           /\ DataAfter(68).v = 1
           /\ DataAfter(68).bytes = <<0, w \div 8 - 1>>
           /\ DataAfter(69).v = 1
           /\ DataAfter(69).bytes = <<0, 0, (h - 1) % 256, (h - 1) \div 256>>
           /\ DataAfter(69).bytes[3] + 256 * DataAfter(69).bytes[4] = h - 1

C24_TallestCanvas ==
    /\ RegistersSent /\ AllOk
    /\ screen.height = 65536
    /\ DataAfter(1).bytes = <<255, 255, 0>>

-----------------------------------------------------------------------------
(* The application loop of app_main beside the request handlers of the HTTP *)
(* server. Each handler is a closure over clones of the three Arc<Mutex<_>>  *)
(* of HttpServer and nothing else; the Display is a local of the loop body. *)

MaxRequests == 3

Notes == {1, 2}

\* the Mutex a handler of the route takes
LockOf(route) ==
    CASE route = "refresh" -> "flag_owner"
      [] route = "sensor"  -> "sensor_owner"
      [] OTHER             -> "note_owner"

get_refresh_flag_sticky(flag) ==
    [flag |-> flag, ret |-> flag]

get_refresh_flag(flag) ==
    IF flag = TRUE THEN [flag |-> FALSE, ret |-> TRUE]
                   ELSE [flag |-> flag, ret |-> FALSE]

handle_drawing(a, route, body) ==
    CASE route = "refresh" -> [a EXCEPT !.refresh_flag = TRUE, !.sets = @ + 1, !.mutations = @ + 1]
      [] route = "post"    -> [a EXCEPT !.note_content = body, !.mutations = @ + 1]
      [] OTHER             -> a

\* what the closure of the route does to the data it captured, under its lock
handle(a, route, body) ==
    CASE route = "refresh" -> [a EXCEPT !.refresh_flag = TRUE, !.sets = @ + 1]
      [] route = "post"    -> [a EXCEPT !.note_content = body]
      [] OTHER             -> a

AppInit ==
    /\ screen = Screen_new(8, 2, White)
    /\ last = NoCall
    /\ nops = 0
    /\ DriverIdle

AppStep(new) ==
    /\ app' = new
    /\ UNCHANGED <<screen, last, nops, pc, log, dc, rst, busy, polls, result, prevResult, ndraws>>

\* the server hands a request to a free task
HandlerAccept(h) ==
    /\ app.handler[h].at = "idle"
    /\ app.served < MaxRequests
    /\ \E route \in Routes :
        AppStep([app EXCEPT !.handler[h] = [at |-> "accepted", route |-> route],
                            !.served = @ + 1])

\* lock().unwrap() of the handler: blocks while the Mutex is held
HandlerLock(h) ==
    /\ app.handler[h].at = "accepted"
    /\ app[LockOf(app.handler[h].route)] = "none"
    /\ AppStep([app EXCEPT ![LockOf(app.handler[h].route)] = h,
                           !.handler[h].at = "locked"])

\* the statement under the lock; GET / drops its guard at the end of it
HandlerAct(h) ==
    /\ app.handler[h].at = "locked"
    /\ \E body \in Notes :
        LET route == app.handler[h].route
            a     == handle(app, route, body)
        IN  AppStep([a EXCEPT ![LockOf(route)] = IF route = "get" THEN "none" ELSE @,
                              !.handler[h].at = "responding"])

\* the response is written and the closure returns, dropping its guard
HandlerReturn(h) ==
    /\ app.handler[h].at = "responding"
    /\ LET route == app.handler[h].route
       IN  AppStep([app EXCEPT ![LockOf(route)] = IF @ = h THEN "none" ELSE @,
                               !.handler[h] = [at |-> "idle", route |-> "none"]])

HandlerStep(h) ==
    \/ HandlerAccept(h)
    \/ HandlerLock(h)
    \/ HandlerAct(h)
    \/ HandlerReturn(h)

\* now_localtime and the five-minute test
MainTop ==
    /\ app.main = "top"
    /\ \E five_minutes \in BOOLEAN :
        AppStep([app EXCEPT !.main = IF five_minutes THEN "add_sensor_data" ELSE "check"])

MainAddSensorLock ==
    /\ app.main = "add_sensor_data"
    /\ app.sensor_owner = "none"
    /\ AppStep([app EXCEPT !.sensor_owner = "main", !.main = "add_sensor_data_locked"])

MainAddSensor ==
    /\ app.main = "add_sensor_data_locked"
    /\ \E midnight \in BOOLEAN :
        AppStep([app EXCEPT !.sensor_data = IF midnight \/ @ = 2 THEN 1 ELSE @ + 1,
                            !.sensor_owner = "none",
                            !.main = "check"])

\* first_draw || ... : the flag is not polled while first_draw holds
MainCheck ==
    /\ app.main = "check"
    /\ AppStep([app EXCEPT !.main = IF app.first_draw THEN "update" ELSE "get_refresh_flag"])

MainPollLock ==
    /\ app.main = "get_refresh_flag"
    /\ app.flag_owner = "none"
    /\ AppStep([app EXCEPT !.flag_owner = "main", !.main = "get_refresh_flag_locked"])

MainPoll ==
    /\ app.main = "get_refresh_flag_locked"
    /\ LET r == get_refresh_flag(app.refresh_flag)
       IN  AppStep([app EXCEPT !.refresh_flag = r.flag,
                               !.flag_owner = "none",
                               !.got_flag = r.ret,
                               !.polled = <<[ret |-> r.ret, sets |-> app.sets]>>
                                          \o SubSeq(@, 1, IF Len(@) > 0 THEN 1 ELSE 0),
                               !.sets = 0,
                               !.main = IF r.ret THEN "update" ELSE "require_refresh"])

MainRequireRefresh ==
    /\ app.main = "require_refresh"
    /\ \E on_the_hour \in BOOLEAN :
        AppStep([app EXCEPT !.main = IF on_the_hour THEN "update" ELSE "sleep"])

MainUpdate ==
    /\ app.main = "update"
    /\ AppStep([app EXCEPT !.first_draw = FALSE, !.main = "get_note_content"])

MainNoteLock ==
    /\ app.main = "get_note_content"
    /\ app.note_owner = "none"
    /\ AppStep([app EXCEPT !.note_owner = "main", !.main = "get_note_content_locked"])

MainNote ==
    /\ app.main = "get_note_content_locked"
    /\ AppStep([app EXCEPT !.content = app.note_content,
                           !.note_owner = "none",
                           !.main = "new"])

\* Display::new and clear
MainNew ==
    /\ app.main = "new"
    /\ AppStep([app EXCEPT !.display = 0, !.mutations = 1, !.main = "draw_common_part"])

MainDrawCommon ==
    /\ app.main = "draw_common_part"
    /\ AppStep([app EXCEPT !.mutations = @ + 1, !.main = "draw_custom_part"])

MainDrawCustom ==
    /\ app.main = "draw_custom_part"
    /\ AppStep([app EXCEPT !.display = app.content, !.mutations = @ + 1, !.main = "show_status"])

MainShowStatus ==
    /\ app.main = "show_status"
    /\ AppStep([app EXCEPT !.mutations = @ + 1, !.main = "draw"])

\* ssd1683.draw(&display, false) is entered
MainDrawBegin ==
    /\ app.main = "draw"
    /\ AppStep([app EXCEPT !.in_flight = @ + 1,
                           !.serialized = app.mutations,
                           !.main = "drawing"])

\* ... and returns; an Err leaves app_main through the ? operator
MainDrawEnd ==
    /\ app.main = "drawing"
    /\ \E ok \in BOOLEAN :
        AppStep([app EXCEPT !.in_flight = @ - 1,
                            !.main = IF ok THEN "sleep" ELSE "returned"])

MainSleep ==
    /\ app.main = "sleep"
    /\ AppStep([app EXCEPT !.main = "top"])

\* dht20.read()? and the three drawing calls can fail, which ends app_main
MainReturnErr ==
    /\ app.main \in {"add_sensor_data", "draw_common_part", "draw_custom_part", "show_status"}
    /\ AppStep([app EXCEPT !.main = "returned"])

MainStep ==
    \/ MainTop
    \/ MainAddSensorLock
    \/ MainAddSensor
    \/ MainCheck
    \/ MainPollLock
    \/ MainPoll
    \/ MainRequireRefresh
    \/ MainUpdate
    \/ MainNoteLock
    \/ MainNote
    \/ MainNew
    \/ MainDrawCommon
    \/ MainDrawCustom
    \/ MainShowStatus
    \/ MainDrawBegin
    \/ MainDrawEnd
    \/ MainSleep
    \/ MainReturnErr

AppNext ==
    \/ MainStep
    \/ \E h \in Handlers : HandlerStep(h)

AppSpec == AppInit /\ [][AppNext]_vars

\* the locals of app_main and its Display
MainLocals ==
    <<app.main, app.first_draw, app.got_flag, app.content, app.display,
      app.mutations, app.in_flight, app.serialized>>

\* C25: under every interleaving of the loop with the handlers at most one
\* draw is in flight, the Display being serialized is not written between the
\* start and the end of that draw, and a handler step changes nothing but the
\* note text, the refresh flag and the sensor history (and their locks).
C25_DrawAloneOnDisplay ==
    /\ [](/\ app.in_flight <= 1
          /\ (app.in_flight = 1 => (app.mutations = app.serialized /\ app.main = "drawing")))
    /\ [][(\E h \in Handlers : HandlerStep(h)) => UNCHANGED MainLocals]_vars

\* a draw is in flight while one handler holds the note lock and has written the note
C25_PostDuringDraw ==
    /\ app.in_flight = 1
    /\ \E h \in Handlers :
        /\ app.handler[h] = [at |-> "responding", route |-> "post"]
        /\ app.note_owner = h
        /\ app.note_content # app.content

\* C29: the refresh flag is consumed atomically. The flag is set exactly when
\* some /refresh handler has set it since the last poll, so the next
\* get_refresh_flag after a set returns true; a poll returns true only if a
\* /refresh arrived since the poll before it, and any number of requests
\* between two polls make one true.
C29_RefreshConsumedOnce ==
    /\ app.refresh_flag = (app.sets > 0)
    /\ \A i \in 1..Len(app.polled) : app.polled[i].ret = (app.polled[i].sets > 0)
    /\ app.main \in {"update", "require_refresh"} /\ ~app.first_draw
         => app.got_flag = app.polled[1].ret
    /\ app.main = "require_refresh" => ~app.got_flag

\* two /refresh requests between two polls gave one true, and the poll after it false
C29_TwoRequestsCoalesced ==
    /\ Len(app.polled) = 2
    /\ app.polled[2] = [ret |-> TRUE, sets |-> 2]
    /\ app.polled[1] = [ret |-> FALSE, sets |-> 0]

-----------------------------------------------------------------------------
(* Blits whose width is not a multiple of 8, on a 16 x 2 canvas *)

\* (x, y, width, height, data), each with data of the length bitmap demands
RaggedBlits == {<<0, 0, 4, 2, <<160>>>>, <<0, 0, 12, 2, <<255, 240, 129>>>>,
                <<0, 0, 5, 1, <<>>>>, <<3, 1, 7, 1, <<>>>>,
                <<0, 0, 9, 1, <<255>>>>, <<0, 0, 15, 2, <<1, 2, 3>>>>,
                <<0, 0, 16, 1, <<129, 24>>>>}

RaggedBitmap ==
    /\ nops < MaxOps
    /\ Alive
    /\ \E b \in RaggedBlits, color \in Color :
           LET r == bitmap(screen, b[1], b[2], b[3], b[4], b[5], color)
           IN  /\ screen' = r.scr
               /\ last' = [NoCall EXCEPT !.op = "bitmap", !.x = b[1], !.y = b[2], !.w = b[3],
                                         !.h = b[4], !.data = b[5], !.color = color,
                                         !.res = r.res]
    /\ nops' = nops + 1
    /\ UNCHANGED driverVars

RaggedNext ==
    \/ Clear
    \/ RaggedBitmap

RaggedSpec == BlitInit /\ [][RaggedNext]_vars

\* the call c passes the argument check of bitmap on canvas s
Accepted(s, c) ==
    /\ (c.h * c.w) \div 8 = Len(c.data)
    /\ c.x + c.w <= s.width
    /\ c.y + c.h <= s.height

\* C26: whenever bitmap accepts its arguments, every source index
\* i/8 + j*(w/8) it reads, for i < w and j < h, is below data.len(), so the
\* call does not end in an index-out-of-bounds panic.
C26_SourceIndexInData ==
    (last.op = "bitmap" /\ Accepted(screen, last)) =>
        /\ last.res # Panic
        /\ \A i \in 0..(last.w - 1), j \in 0..(last.h - 1) :
               i \div 8 + j * (last.w \div 8) < Len(last.data)

-----------------------------------------------------------------------------
(* Claims about the bus during a draw with failing port operations *)

\* device.write(&[MASTER_ACTIVATE]) has succeeded in this draw
ActivateWritten ==
    \E i \in 1..Len(log) : IsCommand(i, MASTER_ACTIVATE) /\ log[i].ok

\* C27: a draw that returns an error has not triggered a refresh: whichever
\* GPIO and SPI operations fail, when draw has returned Err the byte
\* MASTER_ACTIVATE was not written to the bus during that draw.
C27_ErrMeansNoRefresh ==
    (Returned /\ result # Ok) => ~ActivateWritten

\* position p of the program is the last operation of a send_command or of a
\* send_data
EndsSend(p) ==
    \/ Program[p].k = "spi" /\ Program[p].v = 1
    \/ /\ p > 1
       /\ Program[p] = PortOp("dc", 1, <<>>)
       /\ Program[p - 1].k = "spi" /\ Program[p - 1].v = 0

\* C28: throughout a draw every write of a command byte finds the
\* data/command line low and every write of data bytes finds it high, whether
\* the write succeeds or fails, and when a send_command or a send_data has
\* returned Ok the line is high.
C28_LineLevelMatchesWrite ==
    [][/\ (pc > 0 /\ pc <= Len(Program) /\ Program[pc].k = "spi" /\ log' # log)
            => (log'[Len(log')].v = Program[pc].v /\ dc = Program[pc].v)
       /\ (pc > 0 /\ pc <= Len(Program) /\ EndsSend(pc) /\ pc' = pc + 1)
            => dc' = 1]_vars

\* both planes have gone out as data with the line high, each after its command
C28_BothPlanesWritten ==
    /\ dc = 1
    /\ \E i, j \in 1..Len(log) :
        /\ IsCommand(i, WRITE_RAM) /\ IsCommand(j, WRITE_ALTRAM)
        /\ IsSpi(i + 3) /\ log[i + 3].v = 1 /\ log[i + 3].ok
        /\ j + 3 <= Len(log) /\ IsSpi(j + 3) /\ log[j + 3].v = 1 /\ log[j + 3].ok

-----------------------------------------------------------------------------
(* main: the canvas it builds and the layout calls of its render loop that  *)
(* are computed from SCREEN_WIDTH, in program order. A call that returns    *)
(* Err ends main through the ? operator.                                    *)

SCREEN_HEIGHT == 300
SCREEN_WIDTH == 400

DigitChars == <<"0", "1", "2", "3", "4", "5", "6", "7", "8", "9">>

\* format!("{:02}", n) for n below 100
TwoDigits(n) == <<DigitChars[(n \div 10) + 1], DigitChars[(n % 10) + 1]>>

\* format!("{:02}:{:02}:{:02}", hour, minute, second)
Stamp(hour, minute, second) ==
    TwoDigits(hour) \o <<":">> \o TwoDigits(minute) \o <<":">> \o TwoDigits(second)

Stamps ==
    {Stamp(hour, minute, second) :
        hour \in {0, 7, 12, 23}, minute \in {0, 5, 30, 59}, second \in {0, 1, 29, 30, 31, 58, 59}}

Title == <<"W", "E", "A", "T", "H", "E", "R", " ", "F", "O", "R", "E", "C", "A", "S", "T">>

AirLine == <<"P", "M", "1", "0", "\n", "P", "M", "2">>

\* the calls, given the time stamp of the first
LayoutCalls(line) ==
    << [op |-> "text", x |-> SCREEN_WIDTH - 8 * (1 + Len(line)), y |-> 0, w |-> 0, h |-> 0,
        fontsize |-> 16, text |-> line, color |-> Black],
       [op |-> "text", x |-> SCREEN_WIDTH \div 2, y |-> 80, w |-> 0, h |-> 0,
        fontsize |-> 16, text |-> AirLine, color |-> Black],
       [op |-> "rectangle", x |-> 0, y |-> 136, w |-> SCREEN_WIDTH, h |-> 16,
        fontsize |-> 0, text |-> <<>>, color |-> Red],
       [op |-> "text", x |-> (SCREEN_WIDTH - Len(Title) * 8) \div 2, y |-> 136, w |-> 0, h |-> 0,
        fontsize |-> 16, text |-> Title, color |-> White] >>

\* let mut screen = Screen::new(SCREEN_HEIGHT, SCREEN_WIDTH, Color::Black)
RenderInit ==
    /\ screen = Screen_new(SCREEN_HEIGHT, SCREEN_WIDTH, Black)
    /\ last = NoCall
    /\ nops = 0
    /\ DriverIdle

\* screen.clear(Color::White) at the start of a render
RenderClear ==
    /\ last.op = "new" \/ (last.res = Ok /\ nops = Len(LayoutCalls(<<>>)))
    /\ screen' = clear(screen, White)
    /\ last' = [NoCall EXCEPT !.op = "clear"]
    /\ nops' = 0
    /\ UNCHANGED driverVars

\* the next layout call of the render
RenderLayout ==
    /\ last.op # "new"
    /\ last.res = Ok
    /\ nops < Len(LayoutCalls(<<>>))
    /\ \E line \in (IF nops = 0 THEN Stamps ELSE {<<>>}) :
           LET c == LayoutCalls(line)[nops + 1]
               r == IF c.op = "rectangle"
                    THEN rectangle(screen, c.x, c.y, c.w, c.h, c.color)
                             @@ [cursor |-> 0, placed |-> <<>>]
                    ELSE text(screen, c.x, c.y, c.fontsize, c.text, c.color)
           IN  /\ screen' = r.scr
               /\ last' = [NoCall EXCEPT !.op = c.op, !.x = c.x, !.y = c.y, !.w = c.w, !.h = c.h,
                                         !.fontsize = c.fontsize, !.text = c.text,
                                         !.color = c.color, !.res = r.res,
                                         !.cursor = r.cursor, !.placed = r.placed]
    /\ nops' = nops + 1
    /\ UNCHANGED driverVars

RenderNext ==
    \/ RenderClear
    \/ RenderLayout

RenderSpec == RenderInit /\ [][RenderNext]_vars

\* C30: in the render loop the canvas main built has get_width() =
\* SCREEN_WIDTH and get_height() = SCREEN_HEIGHT, so the full-width banner
\* rectangle(0, 136, SCREEN_WIDTH, 16, Red) lies inside the canvas and no
\* layout call of the render loop returns InvalidArgument.
C30_LayoutInsideCanvas ==
    last.op # "new" =>
        /\ get_width(screen) = SCREEN_WIDTH
        /\ get_height(screen) = SCREEN_HEIGHT
        /\ 0 + SCREEN_WIDTH <= get_width(screen)
        /\ 136 + 16 <= get_height(screen)
        /\ last.res # InvalidArgument

====
